---- MODULE Spec2Model ----
(***************************************************************************)
(* Model of taichi::lang::Program (taichi/program/program.h): the per-     *)
(* thread CompileConfig table, the SNode tree registry, the JIT evaluator  *)
(* cache and the hash of its keys, the function registry, the kernel list  *)
(* and the SNode accessor kernels, the kernel id counter, the ndarray      *)
(* table and the finalize / destruction lifecycle.                         *)
(*                                                                         *)
(* program.h declares the members and defines this_thread_config(),        *)
(* config(), kernel(), get_kernel_id(), get_program_impl() and             *)
(* JITEvaluatorId inline.  The bodies of add_snode_tree,                   *)
(* destroy_snode_tree, allocate_snode_tree_id, get_snode_root,             *)
(* create_function, create_ndarray, delete_ndarray, finalize, ~Program and *)
(* the evaluator get-or-compile routine live in translation units that are *)
(* not part of the sources at hand; those operations are modelled from the *)
(* design document and from the declarations and doc comments in           *)
(* program.h.                                                              *)
(***************************************************************************)
EXTENDS Integers, Sequences, FiniteSets, TLC

\* ---------------------------------------------------------------- bounds
\* Number of SNodeTree objects ever constructed in one behaviour.
MaxTrees == 4

\* Number of threads that call into the Program (thread 1 constructs it).
NumThreads == 3

\* Number of threads that request evaluator kernels.
NumEvalThreads == 2

\* Number of get_kernel_id() calls in one behaviour.
MaxKernelIdCalls == 4

\* Number of Kernel objects constructed in one behaviour.
MaxKernels == 4

\* Number of SNodes accessor kernels are requested for.
NumSNodes == 2

\* Number of evaluator kernels compiled in one behaviour.
MaxEvaluators == 2

\* Number of distinct FunctionKeys requested.
NumFunctionKeys == 4

\* Number of Ndarray objects created in one behaviour.
MaxNdarrays == 3

\* Number of explicit finalize() calls in one behaviour.
MaxFinalizeCalls == 2

VARIABLES
    \* per-thread CompileConfig table
    configs,               \* std::unordered_map<std::thread::id, CompileConfig>
    config_map_mut,        \* std::shared_mutex: [readers, writer]
    cfg_pc,                \* where each thread is inside this_thread_config()
    cfg_ref,               \* key of the entry the reference a thread holds
                           \* (the result of this_thread_config()) points to
    cfg_caller,            \* who called this_thread_config() on each thread:
                           \* "user" or "get_program_impl"
    cfg_seen,              \* history: the values the main entry had since
                           \* the inserting thread took the exclusive lock
    program_arch,          \* the Arch the Program was constructed for
    gpi_ret,               \* the latest get_program_impl() call: its thread
                           \* and outcome ("impl" or "assert")
    \* JIT evaluator cache
    jit_evaluator_cache,     \* unordered_map<JITEvaluatorId, unique_ptr<Kernel>>
                             \* as the set of its [key, kernel] entries
    jit_evaluator_cache_mut, \* std::mutex: the thread holding it, or NoThread
    jit_evaluator_id,        \* std::atomic<uint32_t>: evaluators synthesized
    ev_pc,                   \* where each thread is inside get-or-compile
    ev_req,                  \* the JITEvaluatorId each thread in a call built
    ev_kernel,               \* the kernel a thread compiled and has not
                             \* inserted yet (NoKernel otherwise)
    ev_returned,             \* history: [id, kernel, hit] of every return
    \* SNode tree registry
    snode_trees_,          \* std::vector<std::unique_ptr<SNodeTree>>
    free_snode_tree_ids_,  \* std::stack<int>, top = last element
    tree_serial,           \* number of SNodeTree objects constructed so far
    live_trees,            \* history: trees added and not yet destroyed
    destroyed_ids,         \* history: ids of destroyed trees not reallocated
                           \* since, oldest destruction first
    \* function registry
    functions_,            \* std::vector<std::unique_ptr<Function>>
    function_map_,         \* std::unordered_map<FunctionKey, Function *>
    fn_returned,           \* history: [key, fn, fresh] of every return
    \* ndarray table and lifecycle
    ndarrays_,             \* std::unordered_map<void *, unique_ptr<Ndarray>>
    nd_serial,             \* number of Ndarray objects created so far
    finalized_,            \* bool finalized_
    alive,                 \* the Program is constructed and not yet destroyed
    release_count,         \* history: times backend resources were released
    finalize_calls,        \* history: explicit finalize() calls
    dtor_finalized,        \* history: whether ~Program ran finalize
    res_call,              \* the latest call on the table or the lifecycle
                           \* and its outcome
    \* kernel registry
    kernels,               \* std::vector<std::unique_ptr<Kernel>>
    snode_rw_accessors_bank_,  \* the accessor kernels built, per SNode and
                               \* kind
    kernel_ret,            \* the latest kernel(), get_snode_reader() or
                           \* get_snode_writer() call and what it returned
    acc_returned,          \* history: [snode, kind, kernel] of every
                           \* accessor return
    \* JITEvaluatorId hashing
    hash_a, hash_b,        \* two JITEvaluatorId objects
    hash_out,              \* their hash values once computed, <<>> before
    \* get_kernel_id()
    kernel_id,             \* `static int id` of get_kernel_id()
    kid_pc,                \* where each thread is inside get_kernel_id()
    kid_read,              \* the value of id a thread read for `id++`
    kid_returned,          \* history: the ids returned, in order of return
    kid_base,              \* history: value of id when the behaviour starts
    kid_failed             \* history: calls that ended in the assertion

tree_vars ==
    <<snode_trees_, free_snode_tree_ids_, tree_serial, live_trees, destroyed_ids>>

cfg_vars ==
    <<configs, config_map_mut, cfg_pc, cfg_ref, cfg_caller, cfg_seen,
      program_arch, gpi_ret>>

cache_vars ==
    <<jit_evaluator_cache, jit_evaluator_cache_mut, jit_evaluator_id,
      ev_pc, ev_req, ev_kernel, ev_returned>>

fn_vars == <<functions_, function_map_, fn_returned>>

res_vars ==
    <<ndarrays_, nd_serial, finalized_, alive, release_count, finalize_calls,
      dtor_finalized, res_call>>

kernel_vars == <<kernels, snode_rw_accessors_bank_, kernel_ret, acc_returned>>

hash_vars == <<hash_a, hash_b, hash_out>>

kid_vars ==
    <<kernel_id, kid_pc, kid_read, kid_returned, kid_base, kid_failed>>

vars ==
    <<cfg_vars, cache_vars, tree_vars, fn_vars, res_vars, kernel_vars,
      hash_vars, kid_vars>>

\* ============================================ per-thread CompileConfig table
Threads == 1..NumThreads

\* Program::main_thread_id_: the thread that constructed the Program.
main_thread_id_ == 1

\* The architectures a Program is constructed for: one LLVM backend, one not.
Arch == {"x64", "vulkan"}

\* CompileConfig, a value type; arch is the field program.h reads, debug
\* stands for the other options.
CompileConfig == [arch : Arch, debug : BOOLEAN]

\* A default-constructed CompileConfig (what operator[] inserts).
DefaultCompileConfig == [arch |-> "x64", debug |-> FALSE]

NoThread == 0

\* configs.count(thread_id)
ConfigsCount(thread_id) == IF thread_id \in DOMAIN configs THEN 1 ELSE 0

\* configs[key] = value: inserts the key when it is absent.
ConfigsPut(key, value) ==
    [k \in DOMAIN configs \cup {key} |-> IF k = key THEN value ELSE configs[k]]

\* The entry the returned reference names: `return configs[thread_id];`
\* (mutant: the main thread's entry).
ThisThreadConfigRetMain(thread_id) == main_thread_id_

ThisThreadConfigRet(thread_id) == thread_id

\* arch_uses_llvm(arch)
arch_uses_llvm(arch) == arch = "x64"

\* The architecture get_program_impl() tests: this_thread_config().arch
GpiTestedArch(entry) == entry.arch

\* The return of this_thread_config() on thread t, entry being the entry the
\* returned reference names.  A caller of this_thread_config() keeps the
\* reference; get_program_impl() (lines 357-360) reads its arch for
\* TI_ASSERT(arch_uses_llvm(...)) and returns program_impl_.get().
TTC_Return(t, entry) ==
    IF cfg_caller[t] = "user"
    THEN /\ cfg_ref' = [cfg_ref EXCEPT ![t] = ThisThreadConfigRet(t)]
         /\ UNCHANGED <<cfg_caller, gpi_ret>>
    ELSE /\ gpi_ret' =
               [thread |-> t,
                outcome |-> IF arch_uses_llvm(GpiTestedArch(entry))
                            THEN "impl" ELSE "assert"]
         /\ cfg_caller' = [cfg_caller EXCEPT ![t] = "user"]
         /\ UNCHANGED cfg_ref

\* this_thread_config(), line 127: std::shared_lock read_lock(config_map_mut)
TTC_LockShared(t) ==
    /\ cfg_pc[t] = "idle"
    /\ config_map_mut.writer = NoThread
    /\ config_map_mut' =
          [config_map_mut EXCEPT !.readers = config_map_mut.readers \cup {t}]
    /\ cfg_pc' = [cfg_pc EXCEPT ![t] = "check"]
    /\ UNCHANGED <<configs, cfg_ref, cfg_caller, cfg_seen, program_arch, gpi_ret>>
    /\ UNCHANGED <<cache_vars, tree_vars, fn_vars, res_vars,
                   kernel_vars, hash_vars, kid_vars>>

\* lines 128-130 and 135: the count() test under the shared lock; a hit
\* returns configs[thread_id] (read_lock is released on return), a miss
\* releases the shared lock.
TTC_Check(t) ==
    /\ cfg_pc[t] = "check"
    /\ config_map_mut' =
          [config_map_mut EXCEPT !.readers = config_map_mut.readers \ {t}]
    /\ IF ConfigsCount(t) # 0
       THEN /\ TTC_Return(t, configs[ThisThreadConfigRet(t)])
            /\ cfg_pc' = [cfg_pc EXCEPT ![t] = "idle"]
       ELSE /\ cfg_pc' = [cfg_pc EXCEPT ![t] = "upgrade"]
            /\ UNCHANGED <<cfg_ref, cfg_caller, gpi_ret>>
    /\ UNCHANGED <<configs, cfg_seen, program_arch>>
    /\ UNCHANGED <<cache_vars, tree_vars, fn_vars, res_vars,
                   kernel_vars, hash_vars, kid_vars>>

\* line 131: std::unique_lock write_lock(config_map_mut)
TTC_LockExclusive(t) ==
    /\ cfg_pc[t] = "upgrade"
    /\ config_map_mut.writer = NoThread
    /\ config_map_mut.readers = {}
    /\ config_map_mut' = [config_map_mut EXCEPT !.writer = t]
    /\ cfg_pc' = [cfg_pc EXCEPT ![t] = "insert"]
    /\ cfg_seen' = {configs[main_thread_id_]}
    /\ UNCHANGED <<configs, cfg_ref, cfg_caller, program_arch, gpi_ret>>
    /\ UNCHANGED <<cache_vars, tree_vars, fn_vars, res_vars,
                   kernel_vars, hash_vars, kid_vars>>

\* line 132, first half: configs[thread_id] inserts a default entry and the
\* copy assignment from configs[main_thread_id_] copies the first member.
\* The main thread may write its entry through its reference meanwhile (it
\* holds no lock for that), so the copy is not one atomic step.
TTC_InsertCopyArch(t) ==
    /\ cfg_pc[t] = "insert"
    /\ configs' = ConfigsPut(t,
          [(IF t \in DOMAIN configs THEN configs[t] ELSE DefaultCompileConfig)
              EXCEPT !.arch = configs[main_thread_id_].arch])
    /\ cfg_pc' = [cfg_pc EXCEPT ![t] = "copy"]
    /\ UNCHANGED <<config_map_mut, cfg_ref, cfg_caller, cfg_seen, program_arch,
                   gpi_ret>>
    /\ UNCHANGED <<cache_vars, tree_vars, fn_vars, res_vars,
                   kernel_vars, hash_vars, kid_vars>>

\* line 132, second half, and line 133: the rest of the copy, then
\* `return configs[thread_id];` (write_lock is released on return).
TTC_InsertCopyRest(t) ==
    /\ cfg_pc[t] = "copy"
    /\ configs' = ConfigsPut(t,
          [configs[t] EXCEPT !.debug = configs[main_thread_id_].debug])
    /\ TTC_Return(t, configs'[ThisThreadConfigRet(t)])
    /\ config_map_mut' = [config_map_mut EXCEPT !.writer = NoThread]
    /\ cfg_pc' = [cfg_pc EXCEPT ![t] = "idle"]
    /\ cfg_seen' = {}
    /\ UNCHANGED program_arch
    /\ UNCHANGED <<cache_vars, tree_vars, fn_vars, res_vars,
                   kernel_vars, hash_vars, kid_vars>>

\* History: while a thread holds the exclusive lock for its insertion, every
\* value the main entry takes is recorded.
SeenAfterWrite(table) ==
    IF config_map_mut.writer # NoThread
    THEN cfg_seen \cup {table[main_thread_id_]}
    ELSE cfg_seen

\* A caller writes a field through the reference this_thread_config()
\* returned to it (e.g. `this_thread_config().arch = ...`).
MutateArch(t, v) ==
    /\ cfg_pc[t] = "idle"
    /\ cfg_ref[t] # NoThread
    /\ configs' = [configs EXCEPT ![cfg_ref[t]].arch = v]
    /\ cfg_seen' = SeenAfterWrite(configs')
    /\ UNCHANGED <<config_map_mut, cfg_pc, cfg_ref, cfg_caller, program_arch,
                   gpi_ret>>
    /\ UNCHANGED <<cache_vars, tree_vars, fn_vars, res_vars,
                   kernel_vars, hash_vars, kid_vars>>

MutateDebug(t, v) ==
    /\ cfg_pc[t] = "idle"
    /\ cfg_ref[t] # NoThread
    /\ configs' = [configs EXCEPT ![cfg_ref[t]].debug = v]
    /\ cfg_seen' = SeenAfterWrite(configs')
    /\ UNCHANGED <<config_map_mut, cfg_pc, cfg_ref, cfg_caller, program_arch,
                   gpi_ret>>
    /\ UNCHANGED <<cache_vars, tree_vars, fn_vars, res_vars,
                   kernel_vars, hash_vars, kid_vars>>

\* config(), lines 138-140: `return configs[main_thread_id_];`, an
\* operator[] lookup in the table with no lock taken.  The lookup takes
\* time: other threads run between its start and its end.
ConfigEnter(t) ==
    /\ cfg_pc[t] = "idle"
    /\ cfg_pc' = [cfg_pc EXCEPT ![t] = "config"]
    /\ UNCHANGED <<configs, config_map_mut, cfg_ref, cfg_caller, cfg_seen,
                   program_arch, gpi_ret>>
    /\ UNCHANGED <<cache_vars, tree_vars, fn_vars, res_vars,
                   kernel_vars, hash_vars, kid_vars>>

ConfigReturn(t) ==
    /\ cfg_pc[t] = "config"
    /\ cfg_pc' = [cfg_pc EXCEPT ![t] = "idle"]
    /\ UNCHANGED <<configs, config_map_mut, cfg_ref, cfg_caller, cfg_seen,
                   program_arch, gpi_ret>>
    /\ UNCHANGED <<cache_vars, tree_vars, fn_vars, res_vars,
                   kernel_vars, hash_vars, kid_vars>>

\* The entry config() returns a const reference to.
config == configs[main_thread_id_]

\* get_program_impl(), line 358: the call of this_thread_config() inside the
\* assertion; its steps are those of this_thread_config(), and its return is
\* in TTC_Return.
GPI_LockShared(t) ==
    /\ cfg_pc[t] = "idle"
    /\ config_map_mut.writer = NoThread
    /\ config_map_mut' =
          [config_map_mut EXCEPT !.readers = config_map_mut.readers \cup {t}]
    /\ cfg_pc' = [cfg_pc EXCEPT ![t] = "check"]
    /\ cfg_caller' = [cfg_caller EXCEPT ![t] = "get_program_impl"]
    /\ UNCHANGED <<configs, cfg_ref, cfg_seen, program_arch, gpi_ret>>
    /\ UNCHANGED <<cache_vars, tree_vars, fn_vars, res_vars,
                   kernel_vars, hash_vars, kid_vars>>

\* Program::Program(Arch arch), run by the main thread: the table holds the
\* main thread's entry, configured for arch.
InitConfigs ==
    /\ \E arch \in Arch :
          /\ configs = [k \in {main_thread_id_} |->
                           [DefaultCompileConfig EXCEPT !.arch = arch]]
          /\ program_arch = arch
    /\ cfg_caller = [t \in Threads |-> "user"]
    /\ cfg_seen = {}
    /\ gpi_ret = [thread |-> NoThread, outcome |-> "none"]
    /\ config_map_mut = [readers |-> {}, writer |-> NoThread]
    /\ cfg_pc = [t \in Threads |-> "idle"]
    /\ cfg_ref = [t \in Threads |-> NoThread]

NextConfig ==
    \/ \E t \in Threads : TTC_LockShared(t)
    \/ \E t \in Threads : TTC_Check(t)
    \/ \E t \in Threads : TTC_LockExclusive(t)
    \/ \E t \in Threads : TTC_InsertCopyArch(t)
    \/ \E t \in Threads : TTC_InsertCopyRest(t)
    \/ \E t \in Threads, v \in Arch : MutateArch(t, v)
    \/ \E t \in Threads, v \in BOOLEAN : MutateDebug(t, v)

\* The accesses to the table: this_thread_config() and config() calls of
\* concurrent threads.
NextConfigAccess ==
    \/ \E t \in Threads : TTC_LockShared(t)
    \/ \E t \in Threads : TTC_Check(t)
    \/ \E t \in Threads : TTC_LockExclusive(t)
    \/ \E t \in Threads : TTC_InsertCopyArch(t)
    \/ \E t \in Threads : TTC_InsertCopyRest(t)
    \/ \E t \in Threads : ConfigEnter(t)
    \/ \E t \in Threads : ConfigReturn(t)

\* ===================================================== JIT evaluator cache
EvalThreads == 1..NumEvalThreads

\* DataType values and trace strings of the requests.
DataTypes == {"i32", "f32"}

Traces == {"", "tb"}

\* struct JITEvaluatorId
JITEvaluatorId ==
    [thread_id : EvalThreads, op : {0, 1}, ret : DataTypes, lhs : DataTypes,
     rhs : DataTypes, tb : Traces, is_binary : BOOLEAN]

\* The requests made: one base request and, for each of the six fields a
\* caller passes, the request that differs from the base in that field only.
BaseRequest ==
    [op |-> 0, ret |-> "i32", lhs |-> "i32", rhs |-> "f32", tb |-> "",
     is_binary |-> TRUE]

Requests ==
    {BaseRequest,
     [BaseRequest EXCEPT !.op = 1],
     [BaseRequest EXCEPT !.ret = "f32"],
     [BaseRequest EXCEPT !.lhs = "f32"],
     [BaseRequest EXCEPT !.rhs = "i32"],
     [BaseRequest EXCEPT !.tb = "tb"],
     [BaseRequest EXCEPT !.is_binary = FALSE]}

\* Step 1 of get-or-compile: the id of a request, with the calling thread.
MakeId(t, r) ==
    [thread_id |-> t, op |-> r.op, ret |-> r.ret, lhs |-> r.lhs, rhs |-> r.rhs,
     tb |-> r.tb, is_binary |-> r.is_binary]

\* The ids the threads can build.
EvalIds == {MakeId(t, r) : t \in EvalThreads, r \in Requests}

NoId == [thread_id |-> NoThread, op |-> 0, ret |-> "", lhs |-> "", rhs |-> "",
         tb |-> "", is_binary |-> FALSE]

\* A Kernel object of the cache: serial is its identity (the value of
\* jit_evaluator_id that named it), creator the thread that compiled it.
NoKernel == [serial |-> 0, creator |-> NoThread]

\* JITEvaluatorId::operator== (mutants: the thread is not compared; lhs is
\* compared with the other's rhs).
IdEqNoThread(a, o) ==
    /\ a.op = o.op /\ a.ret = o.ret
    /\ a.lhs = o.lhs /\ a.rhs = o.rhs /\ a.is_binary = o.is_binary
    /\ a.tb = o.tb

IdEqLhsRhs(a, o) ==
    /\ a.thread_id = o.thread_id /\ a.op = o.op /\ a.ret = o.ret
    /\ a.lhs = o.rhs /\ a.rhs = o.rhs /\ a.is_binary = o.is_binary
    /\ a.tb = o.tb

IdEq(a, o) ==
    /\ a.thread_id = o.thread_id /\ a.op = o.op /\ a.ret = o.ret
    /\ a.lhs = o.lhs /\ a.rhs = o.rhs /\ a.is_binary = o.is_binary
    /\ a.tb = o.tb

\* jit_evaluator_cache.find(id): the entries whose key compares equal to id.
CacheFind(id) == {e \in jit_evaluator_cache : IdEq(e.key, id)}

\* jit_evaluator_cache[id] = kernel
CachePut(id, kernel) ==
    (jit_evaluator_cache \ CacheFind(id)) \cup {[key |-> id, kernel |-> kernel]}

\* A thread calls get-or-compile(op, is_binary, ret, lhs, rhs, tb): it builds
\* the id with its own thread identity and takes jit_evaluator_cache_mut.
EvalLock(t, r) ==
    /\ ev_pc[t] = "idle"
    /\ jit_evaluator_cache_mut = NoThread
    /\ jit_evaluator_id < MaxEvaluators \/ CacheFind(MakeId(t, r)) # {}
    /\ jit_evaluator_cache_mut' = t
    /\ ev_req' = [ev_req EXCEPT ![t] = MakeId(t, r)]
    /\ ev_pc' = [ev_pc EXCEPT ![t] = "probe"]
    /\ UNCHANGED <<jit_evaluator_cache, jit_evaluator_id, ev_kernel, ev_returned>>
    /\ UNCHANGED <<cfg_vars, tree_vars, fn_vars, res_vars,
                   kernel_vars, hash_vars, kid_vars>>

\* Step 2, a hit: the cached kernel is returned and the mutex released.
EvalHit(t) ==
    /\ ev_pc[t] = "probe"
    /\ \E e \in CacheFind(ev_req[t]) :
          ev_returned' = ev_returned \cup
              {[id |-> ev_req[t], kernel |-> e.kernel, hit |-> TRUE]}
    /\ jit_evaluator_cache_mut' = NoThread
    /\ ev_req' = [ev_req EXCEPT ![t] = NoId]
    /\ ev_pc' = [ev_pc EXCEPT ![t] = "idle"]
    /\ UNCHANGED <<jit_evaluator_cache, jit_evaluator_id, ev_kernel>>
    /\ UNCHANGED <<cfg_vars, tree_vars, fn_vars, res_vars,
                   kernel_vars, hash_vars, kid_vars>>

\* Step 3, a miss: a kernel applying the operator is synthesized (named by the
\* jit_evaluator_id counter) and compiled, the mutex still held.
EvalCompile(t) ==
    /\ ev_pc[t] = "probe"
    /\ CacheFind(ev_req[t]) = {}
    /\ jit_evaluator_id' = jit_evaluator_id + 1
    /\ ev_kernel' = [ev_kernel EXCEPT
                        ![t] = [serial |-> jit_evaluator_id + 1, creator |-> t]]
    /\ ev_pc' = [ev_pc EXCEPT ![t] = "insert"]
    /\ UNCHANGED <<jit_evaluator_cache, jit_evaluator_cache_mut, ev_req,
                   ev_returned>>
    /\ UNCHANGED <<cfg_vars, tree_vars, fn_vars, res_vars,
                   kernel_vars, hash_vars, kid_vars>>

\* Step 3, end: the kernel is inserted under the id and returned, the mutex
\* released.
EvalInsert(t) ==
    /\ ev_pc[t] = "insert"
    /\ jit_evaluator_cache' = CachePut(ev_req[t], ev_kernel[t])
    /\ ev_returned' = ev_returned \cup
           {[id |-> ev_req[t], kernel |-> ev_kernel[t], hit |-> FALSE]}
    /\ jit_evaluator_cache_mut' = NoThread
    /\ ev_req' = [ev_req EXCEPT ![t] = NoId]
    /\ ev_kernel' = [ev_kernel EXCEPT ![t] = NoKernel]
    /\ ev_pc' = [ev_pc EXCEPT ![t] = "idle"]
    /\ UNCHANGED jit_evaluator_id
    /\ UNCHANGED <<cfg_vars, tree_vars, fn_vars, res_vars,
                   kernel_vars, hash_vars, kid_vars>>

\* The same call with the wait for the mutex made visible: a thread builds
\* the id and requests jit_evaluator_cache_mut ...
EvalCall(t, r) ==
    /\ ev_pc[t] = "idle"
    /\ jit_evaluator_id < MaxEvaluators \/ CacheFind(MakeId(t, r)) # {}
    /\ ev_req' = [ev_req EXCEPT ![t] = MakeId(t, r)]
    /\ ev_pc' = [ev_pc EXCEPT ![t] = "wait"]
    /\ UNCHANGED <<jit_evaluator_cache, jit_evaluator_cache_mut,
                   jit_evaluator_id, ev_kernel, ev_returned>>
    /\ UNCHANGED <<cfg_vars, tree_vars, fn_vars, res_vars,
                   kernel_vars, hash_vars, kid_vars>>

\* std::mutex::lock(): a waiting thread gets the mutex only while no thread
\* owns it, and the waiting threads are served in no particular order
\* (mutant: the request is granted whoever owns the mutex).
MutexCanLockAlways(t) == TRUE

MutexCanLock(t) == jit_evaluator_cache_mut = NoThread

\* ... and is granted it.
EvalAcquire(t) ==
    /\ ev_pc[t] = "wait"
    /\ MutexCanLock(t)
    /\ jit_evaluator_cache_mut' = t
    /\ ev_pc' = [ev_pc EXCEPT ![t] = "probe"]
    /\ UNCHANGED <<jit_evaluator_cache, jit_evaluator_id, ev_req, ev_kernel,
                   ev_returned>>
    /\ UNCHANGED <<cfg_vars, tree_vars, fn_vars, res_vars,
                   kernel_vars, hash_vars, kid_vars>>

\* The requests of the callers that contend for the mutex.
ContendedRequests == {BaseRequest}

\* The steps of thread t inside a call.
EvalStep(t) ==
    EvalAcquire(t) \/ EvalHit(t) \/ EvalCompile(t) \/ EvalInsert(t)

NextEval ==
    \/ \E t \in EvalThreads, r \in ContendedRequests : EvalCall(t, r)
    \/ \E t \in EvalThreads : EvalAcquire(t)
    \/ \E t \in EvalThreads : EvalHit(t)
    \/ \E t \in EvalThreads : EvalCompile(t)
    \/ \E t \in EvalThreads : EvalInsert(t)

InitCache ==
    /\ jit_evaluator_cache = {}
    /\ jit_evaluator_cache_mut = NoThread
    /\ jit_evaluator_id = 0
    /\ ev_pc = [t \in EvalThreads |-> "idle"]
    /\ ev_req = [t \in EvalThreads |-> NoId]
    /\ ev_kernel = [t \in EvalThreads |-> NoKernel]
    /\ ev_returned = {}

NextCache ==
    \/ \E t \in EvalThreads, r \in Requests : EvalLock(t, r)
    \/ \E t \in EvalThreads : EvalHit(t)
    \/ \E t \in EvalThreads : EvalCompile(t)
    \/ \E t \in EvalThreads : EvalInsert(t)

\* ==================================================== SNode tree registry
\* A SNodeTree object: serial is the identity of the heap object (and of the
\* root SNode it owns), id is SNodeTree::id(), materialized is !compile_only.
\* NullTree stands for an empty std::unique_ptr<SNodeTree>.
NullTree == [serial |-> 0, id |-> -1, materialized |-> FALSE]

\* std::stack<int>::empty / top / pop / push
StackEmpty(s) == s = <<>>

StackTopBottom(s) == s[1]

StackTop(s) == s[Len(s)]

StackPopKeep(s) == s

StackPop(s) == SubSeq(s, 1, Len(s) - 1)

StackPushLost(s, x) == s

StackPushTwice(s, x) == Append(Append(s, x), x)

StackPush(s, x) == Append(s, x)

\* Program::allocate_snode_tree_id(): "Returns and consumes a free SNode tree
\* id if there is any, otherwise returns the size of snode_trees_".
\* The returned id, and the free-id stack it leaves behind.
allocate_snode_tree_id ==
    IF StackEmpty(free_snode_tree_ids_)
    THEN Len(snode_trees_)
    ELSE StackTop(free_snode_tree_ids_)

allocate_snode_tree_id_consume ==
    IF StackEmpty(free_snode_tree_ids_)
    THEN free_snode_tree_ids_
    ELSE StackPop(free_snode_tree_ids_)

\* The tree list after the tree with this id is placed: an id below the size
\* names a slot to fill, the id equal to the size grows the list by one slot.
PlaceTree(trees, t) ==
    IF t.id < Len(trees)
    THEN [trees EXCEPT ![t.id + 1] = t]
    ELSE Append(trees, t)

\* Program::add_snode_tree(root, compile_only)
AddSnodeTree(compile_only) ==
    /\ tree_serial < MaxTrees
    /\ LET t == [serial |-> tree_serial + 1,
                 id |-> allocate_snode_tree_id,
                 materialized |-> ~compile_only]
       IN /\ free_snode_tree_ids_' = allocate_snode_tree_id_consume
          /\ snode_trees_' = PlaceTree(snode_trees_, t)
          /\ live_trees' = live_trees \cup {t}
          /\ destroyed_ids' = SelectSeq(destroyed_ids, LAMBDA k : k # t.id)
    /\ tree_serial' = tree_serial + 1
    /\ UNCHANGED <<cfg_vars, cache_vars, fn_vars, res_vars,
                   kernel_vars, hash_vars, kid_vars>>

\* The slot of a destroyed tree: kept as it is (mutant) / invalidated.
SlotKept(trees, id) == trees

SlotInvalidated(trees, id) == [trees EXCEPT ![id + 1] = NullTree]

\* Program::destroy_snode_tree(snode_tree), snode_tree a tree the caller got
\* from add_snode_tree and has not destroyed yet.
DestroySnodeTree(t) ==
    /\ t \in live_trees
    /\ free_snode_tree_ids_' = StackPush(free_snode_tree_ids_, t.id)
    /\ snode_trees_' = SlotInvalidated(snode_trees_, t.id)
    /\ live_trees' = live_trees \ {t}
    /\ destroyed_ids' = Append(destroyed_ids, t.id)
    /\ UNCHANGED tree_serial
    /\ UNCHANGED <<cfg_vars, cache_vars, fn_vars, res_vars,
                   kernel_vars, hash_vars, kid_vars>>

\* Program::get_snode_root(tree_id): the root (named by its tree's serial), or
\* 0 for the hard failure on an id that names no live tree.
get_snode_root(tree_id) ==
    IF tree_id >= 0 /\ tree_id < Len(snode_trees_)
       /\ snode_trees_[tree_id + 1] # NullTree
    THEN snode_trees_[tree_id + 1].serial
    ELSE 0

InitTrees ==
    /\ snode_trees_ = <<>>
    /\ free_snode_tree_ids_ = <<>>
    /\ tree_serial = 0
    /\ live_trees = {}
    /\ destroyed_ids = <<>>

NextTree ==
    \/ \E compile_only \in BOOLEAN : AddSnodeTree(compile_only)
    \/ \E t \in live_trees : DestroySnodeTree(t)

\* ======================================================= function registry
\* The FunctionKeys callers pass (equal keys are equal numbers).
FunctionKeys == 1..NumFunctionKeys

\* function_map_.count(key) (mutant: keys compare by object identity, so the
\* lookup with the caller's key object never finds an entry).
FunctionMapCountZero(key) == 0

FunctionMapCount(key) == IF key \in DOMAIN function_map_ THEN 1 ELSE 0

\* Program::create_function(func_key): the existing function for the key, or
\* a new Function appended to functions_ and registered in function_map_.
\* A Function is named by its serial, its position in functions_.
CreateFunction(key) ==
    /\ alive
    /\ IF FunctionMapCount(key) # 0
       THEN /\ fn_returned' = fn_returned \cup
                  {[key |-> key, fn |-> function_map_[key], fresh |-> FALSE]}
            /\ UNCHANGED <<functions_, function_map_>>
       ELSE LET fn == Len(functions_) + 1
            IN /\ functions_' = Append(functions_, [serial |-> fn, key |-> key])
               /\ function_map_' =
                     [k \in DOMAIN function_map_ \cup {key} |->
                         IF k = key THEN fn ELSE function_map_[k]]
               /\ fn_returned' = fn_returned \cup
                     {[key |-> key, fn |-> fn, fresh |-> TRUE]}
    /\ UNCHANGED <<cfg_vars, cache_vars, tree_vars, res_vars,
                   kernel_vars, hash_vars, kid_vars>>

InitFunctions ==
    /\ functions_ = <<>>
    /\ function_map_ = [k \in {} |-> 0]
    /\ fn_returned = {}

NextFunction == \E key \in FunctionKeys : CreateFunction(key)

\* ============================================ ndarray table and lifecycle
\* The handles (Ndarray *) callers pass: those of the Ndarray objects this
\* Program creates, named 1, 2, ... in the order of creation, and one more
\* that it never creates.  A handle names one object for the whole behaviour.
NdHandles == 1..(MaxNdarrays + 1)

\* ndarrays_.count(ndarray)
NdarraysCount(h) == IF h \in DOMAIN ndarrays_ THEN 1 ELSE 0

\* ndarrays_.erase(ndarray) (mutant: the table is cleared).
NdarraysEraseAll(h) == [g \in {} |-> ""]

NdarraysErase(h) == [g \in DOMAIN ndarrays_ \ {h} |-> ndarrays_[g]]

\* Program::create_ndarray(type, shape, layout, zero_fill): a new Ndarray,
\* owned by the table under its own address.
CreateNdarray(type) ==
    /\ alive
    /\ nd_serial < MaxNdarrays
    /\ nd_serial' = nd_serial + 1
    /\ ndarrays_' = [g \in DOMAIN ndarrays_ \cup {nd_serial + 1} |->
                        IF g = nd_serial + 1 THEN type ELSE ndarrays_[g]]
    /\ res_call' = [op |-> "create_ndarray", arg |-> nd_serial + 1,
                    outcome |-> "ok"]
    /\ UNCHANGED <<finalized_, alive, release_count, finalize_calls,
                   dtor_finalized>>
    /\ UNCHANGED <<cfg_vars, cache_vars, tree_vars, fn_vars,
                   kernel_vars, hash_vars, kid_vars>>

\* Program::delete_ndarray(ndarray)
DeleteNdarray(h) ==
    /\ alive
    /\ IF NdarraysCount(h) # 0
       THEN /\ ndarrays_' = NdarraysErase(h)
            /\ res_call' = [op |-> "delete_ndarray", arg |-> h, outcome |-> "ok"]
       ELSE /\ UNCHANGED ndarrays_
            /\ res_call' = [op |-> "delete_ndarray", arg |-> h,
                            outcome |-> "fail"]
    /\ UNCHANGED <<nd_serial, finalized_, alive, release_count, finalize_calls,
                   dtor_finalized>>
    /\ UNCHANGED <<cfg_vars, cache_vars, tree_vars, fn_vars,
                   kernel_vars, hash_vars, kid_vars>>

\* bool finalized_{false} (mutant: it starts true).
FinalizedInitTrue == TRUE

FinalizedInit == FALSE

\* An explicit Program::finalize(): releases the backend resources and sets
\* finalized_.  A call on a finalized Program breaks the contract, and
\* whether it releases again is not defined: both outcomes are possible.
Finalize ==
    /\ alive
    /\ finalize_calls < MaxFinalizeCalls
    /\ finalize_calls' = finalize_calls + 1
    /\ IF finalized_
       THEN \E again \in {0, 1} : release_count' = release_count + again
       ELSE release_count' = release_count + 1
    /\ finalized_' = TRUE
    /\ res_call' = [op |-> "finalize", arg |-> 0, outcome |-> "ok"]
    /\ UNCHANGED <<ndarrays_, nd_serial, alive, dtor_finalized>>
    /\ UNCHANGED <<cfg_vars, cache_vars, tree_vars, fn_vars,
                   kernel_vars, hash_vars, kid_vars>>

\* Program::~Program(): finalize unless finalized_ already, then the members
\* (the ndarray table, the kernel list and the accessor bank among them) are
\* destroyed.
Destroy ==
    /\ alive
    /\ alive' = FALSE
    /\ IF finalized_
       THEN /\ dtor_finalized' = "no"
            /\ UNCHANGED release_count
       ELSE /\ dtor_finalized' = "yes"
            /\ release_count' = release_count + 1
    /\ finalized_' = TRUE
    /\ ndarrays_' = [g \in {} |-> ""]
    /\ res_call' = [op |-> "destroy", arg |-> 0, outcome |-> "ok"]
    /\ kernels' = <<>>
    /\ snode_rw_accessors_bank_' = [key \in {} |-> 0]
    /\ UNCHANGED <<nd_serial, finalize_calls, kernel_ret, acc_returned>>
    /\ UNCHANGED <<cfg_vars, cache_vars, tree_vars, fn_vars, hash_vars,
                   kid_vars>>

InitResources ==
    /\ ndarrays_ = [g \in {} |-> ""]
    /\ nd_serial = 0
    /\ finalized_ = FinalizedInit
    /\ alive = TRUE
    /\ release_count = 0
    /\ finalize_calls = 0
    /\ dtor_finalized = "none"
    /\ res_call = [op |-> "construct", arg |-> 0, outcome |-> "ok"]

NextResources ==
    \/ \E type \in DataTypes : CreateNdarray(type)
    \/ \E h \in NdHandles : DeleteNdarray(h)
    \/ Finalize
    \/ Destroy

\* ============================================================ kernel registry
KernelNames == {"", "k"}

SNodes == 1..NumSNodes

NoKernelRet == [op |-> "none", snode |-> 0, built |-> FALSE,
                kernel |-> [serial |-> 0, name |-> "", snode |-> 0]]

\* std::make_unique<Kernel>(*this, body, name, autodiff_mode), line 189: a new
\* object, distinct from every kernel the list owns.
MakeKernel(name, snode) ==
    [serial |-> Len(kernels) + 1, name |-> name, snode |-> snode]

\* kernels.emplace_back(std::move(func)), line 191 (mutant: the kernel is
\* inserted at the front).
KernelsEmplaceFront(k) == <<k>> \o kernels

KernelsEmplaceBack(k) == Append(kernels, k)

\* *kernels.back(), line 192 (mutant: the first element).
KernelsFront(list) == list[1]

KernelsBack(list) == list[Len(list)]

\* Program::kernel(body, name, autodiff_mode), lines 186-193.
Kernel(name) ==
    /\ alive
    /\ Len(kernels) < MaxKernels
    /\ kernels' = KernelsEmplaceBack(MakeKernel(name, 0))
    /\ kernel_ret' = [op |-> "kernel", snode |-> 0, built |-> TRUE,
                      kernel |-> KernelsBack(kernels')]
    /\ UNCHANGED <<snode_rw_accessors_bank_, acc_returned>>
    /\ UNCHANGED <<cfg_vars, cache_vars, tree_vars, fn_vars, res_vars,
                   hash_vars, kid_vars>>

\* get_snode_reader(snode) / get_snode_writer(snode): the kernel built for
\* (snode, kind) is returned if there is one; otherwise a kernel is built
\* with kernel(), remembered and returned.
GetSnodeAccessor(snode, kind) ==
    LET key == <<snode, kind>> IN
    /\ alive
    /\ IF key \in DOMAIN snode_rw_accessors_bank_
       THEN /\ kernel_ret' = [op |-> kind, snode |-> snode, built |-> FALSE,
                              kernel |-> snode_rw_accessors_bank_[key]]
            /\ UNCHANGED <<kernels, snode_rw_accessors_bank_>>
       ELSE /\ Len(kernels) < MaxKernels
            /\ kernels' = KernelsEmplaceBack(MakeKernel(kind, snode))
            /\ snode_rw_accessors_bank_' =
                  [k \in DOMAIN snode_rw_accessors_bank_ \cup {key} |->
                      IF k = key THEN KernelsBack(kernels')
                      ELSE snode_rw_accessors_bank_[k]]
            /\ kernel_ret' = [op |-> kind, snode |-> snode, built |-> TRUE,
                              kernel |-> KernelsBack(kernels')]
    /\ acc_returned' =
          acc_returned \cup
             {[snode |-> snode, kind |-> kind, kernel |-> kernel_ret'.kernel]}
    /\ UNCHANGED <<cfg_vars, cache_vars, tree_vars, fn_vars, res_vars,
                   hash_vars, kid_vars>>

get_snode_reader(snode) == GetSnodeAccessor(snode, "snode_reader")

get_snode_writer(snode) == GetSnodeAccessor(snode, "snode_writer")

InitKernels ==
    /\ kernels = <<>>
    /\ snode_rw_accessors_bank_ = [key \in {} |-> 0]
    /\ kernel_ret = NoKernelRet
    /\ acc_returned = {}

NextKernel ==
    \/ \E name \in KernelNames : Kernel(name)
    \/ \E snode \in SNodes : get_snode_reader(snode)
    \/ \E snode \in SNodes : get_snode_writer(snode)
    \/ Destroy

\* =================================================== JITEvaluatorId hashing
\* A std::size_t value is the set of the positions of its one bits.
SizeBits == 64

\* The bits of a small non-negative number (below 2^16).
BitsOf(n) == {i \in 0..15 : (n \div (2^i)) % 2 = 1}

\* x << k on std::size_t: bits shifted past the top are dropped.
Shl(x, k) == {i + k : i \in x} \cap (0..(SizeBits - 1))

BitOr(x, y) == x \cup y

BitXor(x, y) == (x \ y) \cup (y \ x)

\* DataType::hash(): the number of the primitive type.
DataTypeHash(dt) == IF dt = "f32" THEN BitsOf(1) ELSE BitsOf(5)

\* std::hash<std::thread::id>{}(thread_id)
ThreadIdHash(thread_id) == BitsOf(thread_id)

\* std::hash<JITEvaluatorId>::operator(), lines 65-71.
Hash(id) ==
    BitXor(BitOr(BitOr(BitOr(BitOr(BitsOf(id.op),
                                   Shl(DataTypeHash(id.ret), 8)),
                             Shl(DataTypeHash(id.lhs), 16)),
                       Shl(DataTypeHash(id.rhs), 24)),
                 Shl(BitsOf(IF id.is_binary THEN 1 ELSE 0), 31)),
           Shl(ThreadIdHash(id.thread_id), 32))

\* The hash of both objects is computed.
HashApply ==
    /\ hash_out = <<>>
    /\ hash_out' = <<Hash(hash_a), Hash(hash_b)>>
    /\ UNCHANGED <<hash_a, hash_b>>
    /\ UNCHANGED <<cfg_vars, cache_vars, tree_vars, fn_vars, res_vars,
                   kernel_vars, kid_vars>>

InitHash ==
    /\ hash_a = NoId
    /\ hash_b = NoId
    /\ hash_out = <<>>

\* Two JITEvaluatorId objects with any field values.
InitHashInputs ==
    /\ hash_a \in JITEvaluatorId
    /\ hash_b \in JITEvaluatorId
    /\ hash_out = <<>>

NextHash == HashApply

\* ============================================================ get_kernel_id
\* TI_ASSERT(id < 100000), line 226
KernelIdLimit == 100000

\* The get_kernel_id() calls begun so far.
KidCalls ==
    Len(kid_returned) + kid_failed
       + Cardinality({t \in Threads : kid_pc[t] # "idle"})

\* line 226: TI_ASSERT(id < 100000); a failed assertion ends the call.
KidAssert(t) ==
    /\ kid_pc[t] = "idle"
    /\ KidCalls < MaxKernelIdCalls
    /\ IF kernel_id < KernelIdLimit
       THEN /\ kid_pc' = [kid_pc EXCEPT ![t] = "read"]
            /\ UNCHANGED kid_failed
       ELSE /\ kid_failed' = kid_failed + 1
            /\ UNCHANGED kid_pc
    /\ UNCHANGED <<kernel_id, kid_read, kid_returned, kid_base>>
    /\ UNCHANGED <<cfg_vars, cache_vars, tree_vars, fn_vars, res_vars,
                   kernel_vars, hash_vars>>

\* line 227, `id++` on a plain static int: the read of id ...
KidRead(t) ==
    /\ kid_pc[t] = "read"
    /\ kid_read' = [kid_read EXCEPT ![t] = kernel_id]
    /\ kid_pc' = [kid_pc EXCEPT ![t] = "write"]
    /\ UNCHANGED <<kernel_id, kid_returned, kid_base, kid_failed>>
    /\ UNCHANGED <<cfg_vars, cache_vars, tree_vars, fn_vars, res_vars,
                   kernel_vars, hash_vars>>

\* ... and the write of the value read plus one; the value read is returned.
KidWrite(t) ==
    /\ kid_pc[t] = "write"
    /\ kernel_id' = kid_read[t] + 1
    /\ kid_returned' = Append(kid_returned, kid_read[t])
    /\ kid_read' = [kid_read EXCEPT ![t] = 0]
    /\ kid_pc' = [kid_pc EXCEPT ![t] = "idle"]
    /\ UNCHANGED <<kid_base, kid_failed>>
    /\ UNCHANGED <<cfg_vars, cache_vars, tree_vars, fn_vars, res_vars,
                   kernel_vars, hash_vars>>

NextKernelId ==
    \/ \E t \in Threads : KidAssert(t)
    \/ \E t \in Threads : KidRead(t)
    \/ \E t \in Threads : KidWrite(t)

\* The process has made no call yet, or has made KernelIdLimit - 2 calls one
\* after the other (which returned 0 .. KernelIdLimit - 3).
InitKernelIdsStart ==
    /\ kernel_id \in {0, KernelIdLimit - 2}
    /\ kid_base = kernel_id
    /\ kid_pc = [t \in Threads |-> "idle"]
    /\ kid_read = [t \in Threads |-> 0]
    /\ kid_returned = <<>>
    /\ kid_failed = 0

InitKernelIds ==
    /\ kernel_id = 0
    /\ kid_pc = [t \in Threads |-> "idle"]
    /\ kid_read = [t \in Threads |-> 0]
    /\ kid_returned = <<>>
    /\ kid_base = 0
    /\ kid_failed = 0

Init ==
    /\ InitConfigs /\ InitCache /\ InitTrees /\ InitFunctions /\ InitResources
    /\ InitKernels /\ InitHash /\ InitKernelIds

SpecConfig == Init /\ [][NextConfig]_vars

SpecConfigAccess == Init /\ [][NextConfigAccess]_vars

\* The callers of get_program_impl(), together with the callers of
\* this_thread_config() that write through the reference they obtained.
NextImpl ==
    \/ \E t \in Threads : GPI_LockShared(t)
    \/ \E t \in Threads : TTC_LockShared(t)
    \/ \E t \in Threads : TTC_Check(t)
    \/ \E t \in Threads : TTC_LockExclusive(t)
    \/ \E t \in Threads : TTC_InsertCopyArch(t)
    \/ \E t \in Threads : TTC_InsertCopyRest(t)
    \/ \E t \in Threads, v \in Arch : MutateArch(t, v)

SpecImpl == Init /\ [][NextImpl]_vars

SpecCache == Init /\ [][NextCache]_vars

SpecTree == Init /\ [][NextTree]_vars

SpecFunction == Init /\ [][NextFunction]_vars

SpecResources == Init /\ [][NextResources]_vars

SpecKernel == Init /\ [][NextKernel]_vars

InitHashed ==
    /\ InitConfigs /\ InitCache /\ InitTrees /\ InitFunctions /\ InitResources
    /\ InitKernels /\ InitHashInputs /\ InitKernelIds

\* Concurrent callers under fair scheduling: a thread inside a call that can
\* take a step eventually takes one (the compilation finishes, too).  The
\* mutex promises no order among the threads waiting for it.
SpecEvalFair ==
    /\ Init
    /\ [][NextEval]_vars
    /\ \A t \in EvalThreads : WF_vars(EvalStep(t))

SpecHash == InitHashed /\ [][NextHash]_vars

InitKernelIdCalls ==
    /\ InitConfigs /\ InitCache /\ InitTrees /\ InitFunctions /\ InitResources
    /\ InitKernels /\ InitHash /\ InitKernelIdsStart

SpecKernelId == InitKernelIdCalls /\ [][NextKernelId]_vars

\* -------------------------------------------- claims: CompileConfig table
\* A step in which thread t writes through its reference.
IsMutateStep(t) ==
    \/ \E v \in Arch : MutateArch(t, v)
    \/ \E v \in BOOLEAN : MutateDebug(t, v)

\* C1: configuration isolation.  For two distinct threads T1 and T2 whose
\* entries both exist (both have called this_thread_config()), a mutation T1
\* makes through its returned reference leaves every field of T2's entry
\* unchanged; when T1 is not the main thread the main entry is unchanged too.
C1_ConfigIsolation ==
    [][\A t1 \in Threads :
          IsMutateStep(t1) =>
             /\ \A t2 \in Threads \ {t1} :
                   (t1 \in DOMAIN configs /\ t2 \in DOMAIN configs) =>
                        configs'[t2] = configs[t2]
             /\ t1 # main_thread_id_ =>
                   configs'[main_thread_id_] = configs[main_thread_id_]]_vars

\* C1 witness: two threads other than the main thread hold references to
\* their entries, and one of them has changed its entry away from both the
\* other thread's entry and the main entry.
C1_Witness ==
    \E t1, t2 \in Threads \ {main_thread_id_} :
       /\ t1 # t2
       /\ cfg_ref[t1] # NoThread /\ cfg_ref[t2] # NoThread
       /\ cfg_pc[t1] = "idle" /\ cfg_pc[t2] = "idle"
       /\ t1 \in DOMAIN configs /\ t2 \in DOMAIN configs
       /\ configs[t1] # configs[t2]
       /\ configs[t1] # configs[main_thread_id_]
       /\ configs[t2] = configs[main_thread_id_]

\* C11 as stated: the value config() returns is immutable.  After
\* construction no step of any thread, the constructing thread included,
\* changes the entry keyed by the constructing thread.
C11_ConfigImmutable == [][config' = config]_vars

\* C11: the value config() returns is changed only by the constructing
\* thread.  Every step that changes the entry keyed by the constructing thread
\* is a write the constructing thread makes through the reference its own
\* this_thread_config() call returned; no this_thread_config() call, and no
\* write by any other thread, changes it.
C11_ConfigChangedOnlyByMain ==
    [][config' # config =>
          /\ cfg_ref[main_thread_id_] = main_thread_id_
          /\ IsMutateStep(main_thread_id_)
          /\ \A t \in Threads \ {main_thread_id_} :
                cfg_ref[t] # main_thread_id_]_vars

\* C11 witness: the constructing thread has changed the value config()
\* returns away from the one the Program was constructed with, while another
\* thread holds a reference to its own entry and has written to it.
C11_Witness ==
    /\ config # [DefaultCompileConfig EXCEPT !.arch = program_arch]
    /\ cfg_ref[main_thread_id_] = main_thread_id_
    /\ \E t \in Threads \ {main_thread_id_} :
          /\ cfg_ref[t] = t
          /\ t \in DOMAIN configs
          /\ cfg_pc[t] = "idle"
          /\ configs[t].debug # config.debug

\* The threads that are accessing the table: inside the count() of line 129,
\* the insertion of line 132, or the operator[] lookup of line 139.
TableAccessing ==
    {t \in Threads : cfg_pc[t] \in {"check", "insert", "copy", "config"}}

\* The threads that are inserting their entry (line 132).
TableInserting == {t \in Threads : cfg_pc[t] \in {"insert", "copy"}}

\* C12: every insertion into the table is exclusive.  In any interleaving of
\* this_thread_config() and config() calls, no table access (the operator[]
\* lookup in config() included) happens without the shared or the exclusive
\* lock held, and while one thread is inserting its entry no other thread is
\* reading or writing the table.
C12_InsertionExclusive ==
    /\ \A t \in TableAccessing :
          t \in config_map_mut.readers \/ config_map_mut.writer = t
    /\ \A t \in TableInserting : TableAccessing = {t}

\* C12, the failing interleaving: one thread is inside the insertion of its
\* entry, holding the exclusive lock, while another thread is inside the
\* lookup of config(), holding no lock.
C12_RaceReached ==
    \E t, u \in Threads :
       /\ t # u
       /\ cfg_pc[t] = "insert" /\ config_map_mut.writer = t
       /\ cfg_pc[u] = "config" /\ u \notin config_map_mut.readers

\* C13: lazy clone on first access.  The first this_thread_config() call of a
\* thread with no entry inserts exactly one entry, for that thread, and the
\* value of the entry when the call returns equals the main thread's
\* configuration at the moment of insertion (one of the values the main entry
\* had while the insertion held the exclusive lock); a later call of the same
\* thread returns its entry and leaves the whole table as it was, so the
\* table keeps one entry per thread and the thread's earlier writes.
C13_LazyClone ==
    [][\A t \in Threads :
          /\ (cfg_pc[t] = "insert" /\ cfg_pc'[t] = "copy") =>
                /\ t \notin DOMAIN configs
                /\ DOMAIN configs' = DOMAIN configs \cup {t}
          /\ (cfg_pc[t] = "copy" /\ cfg_pc'[t] = "idle") =>
                /\ DOMAIN configs' = DOMAIN configs
                /\ configs'[t] \in cfg_seen
          /\ (cfg_pc[t] = "check" /\ cfg_pc'[t] = "idle") =>
                /\ t \in DOMAIN configs
                /\ configs' = configs]_vars

\* C13, the failing interleaving: a thread is halfway through copying the
\* main entry into its new entry, and the entry it is about to complete is
\* none of the values the main entry had since the insertion began.
C13_TornCopy ==
    \E t \in Threads :
       /\ cfg_pc[t] = "copy"
       /\ cfg_seen # {}
       /\ [configs[t] EXCEPT !.debug = config.debug] \notin cfg_seen

\* C16: get_program_impl() ends in the fatal assertion whenever the Program
\* is not LLVM-backed and returns the backend implementation whenever it is,
\* whichever thread calls it and whatever that thread wrote to its own
\* configuration before.
C16_ProgramImplAssertion ==
    gpi_ret.thread # NoThread =>
        (gpi_ret.outcome = "impl" <=> arch_uses_llvm(program_arch))

\* C16, the failing case: a Program constructed for a backend that is not
\* LLVM, whose get_program_impl() passed the assertion and returned.
C16_NonLlvmReturned ==
    /\ ~arch_uses_llvm(program_arch)
    /\ gpi_ret.thread # NoThread
    /\ gpi_ret.outcome = "impl"

\* ------------------------------------------------ claims: JIT evaluator cache
\* The threads that compiled a kernel and have not inserted it yet.
EvalInserting == {t \in EvalThreads : ev_pc[t] = "insert"}

\* C6: evaluator cache idempotence.  Requests by the same thread with the same
\* operator code, is-binary flag, result type, operand types and trace all
\* return the same kernel object; only the first of them compiles (there are
\* as many compilations as distinct ids requested); the cache holds at most
\* one kernel per JITEvaluatorId; and the entry a request returned is still
\* the cache's entry for that id in every later state.
C6_EvaluatorCacheIdempotent ==
    /\ \A r1, r2 \in ev_returned : r1.id = r2.id => r1.kernel = r2.kernel
    /\ \A e1, e2 \in jit_evaluator_cache : e1.key = e2.key => e1 = e2
    /\ jit_evaluator_id =
          Cardinality({e.key : e \in jit_evaluator_cache})
             + Cardinality(EvalInserting)
    /\ \A r \in ev_returned :
          [key |-> r.id, kernel |-> r.kernel] \in jit_evaluator_cache

\* C6 witness: an id was requested twice; the first request compiled and the
\* second was answered from the cache.
C6_Witness ==
    \E r1, r2 \in ev_returned :
       /\ r1.id = r2.id
       /\ ~r1.hit /\ r2.hit
       /\ jit_evaluator_id = MaxEvaluators

\* operator== holds only between ids that agree in all seven fields (over
\* every id of the field values above, not only the ids requested).
IdEqComparesAllFields ==
    \A a, b \in JITEvaluatorId :
       IdEq(a, b) =>
          /\ a.thread_id = b.thread_id /\ a.op = b.op /\ a.ret = b.ret
          /\ a.lhs = b.lhs /\ a.rhs = b.rhs /\ a.tb = b.tb
          /\ a.is_binary = b.is_binary

\* C7: thread affinity.  Two JITEvaluatorIds compare equal only if all seven
\* fields are equal, and no request returns a kernel that another thread
\* compiled and inserted.
C7_EvaluatorThreadAffinity ==
    /\ IdEqComparesAllFields
    /\ \A r \in ev_returned : r.kernel.creator = r.id.thread_id
    /\ \A e \in jit_evaluator_cache : e.kernel.creator = e.key.thread_id

\* C7 witness: two threads made the same request; each got a kernel of its
\* own, and the second thread's request compiled although the first thread's
\* kernel was already cached.
C7_Witness ==
    \E r1, r2 \in ev_returned :
       /\ r1.id.thread_id # r2.id.thread_id
       /\ [r1.id EXCEPT !.thread_id = r2.id.thread_id] = r2.id
       /\ r1.kernel.serial < r2.kernel.serial
       /\ ~r2.hit

\* ------------------------------------------------ claims: SNode tree registry
\* The tree constructed by the latest add_snode_tree.
NewestTree == CHOOSE t \in live_trees : t.serial = tree_serial

\* A step that is an add_snode_tree call.
IsAddStep == tree_serial' = tree_serial + 1

\* C2: tree id reuse is LIFO.  Whenever the free-id stack is non-empty, an
\* add_snode_tree gives the new tree the id of the most recently destroyed
\* tree whose id was not reallocated since (not the size of the tree list),
\* that id is the top of the free-id stack and is removed from it, the rest of
\* the stack stays, and the tree list does not grow.
C2_TreeIdReuseLifo ==
    [][(IsAddStep /\ free_snode_tree_ids_ # <<>>) =>
            /\ destroyed_ids # <<>>
            /\ NewestTree'.id = destroyed_ids[Len(destroyed_ids)]
            /\ NewestTree'.id = free_snode_tree_ids_[Len(free_snode_tree_ids_)]
            /\ NewestTree'.id < Len(snode_trees_)
            /\ free_snode_tree_ids_' =
                   SubSeq(free_snode_tree_ids_, 1, Len(free_snode_tree_ids_) - 1)
            /\ Len(snode_trees_') = Len(snode_trees_)]_vars

\* C2 witness: a tree was added while two ids were free; it took the later
\* destroyed one and the earlier one is still on the stack.
C2_Witness ==
    /\ free_snode_tree_ids_ # <<>>
    /\ \E t \in live_trees :
          /\ t.serial = tree_serial
          /\ t.id < t.serial - 1
          /\ t.id > free_snode_tree_ids_[1]

\* C3: tree id growth.  Whenever the free-id stack is empty and exactly N
\* trees are live, an add_snode_tree gives the new tree id N, which is the
\* size of the tree list, and the tree list grows by one slot.
C3_TreeIdGrowth ==
    [][(IsAddStep /\ free_snode_tree_ids_ = <<>>) =>
            /\ NewestTree'.id = Cardinality(live_trees)
            /\ NewestTree'.id = Len(snode_trees_)
            /\ Len(snode_trees_') = Len(snode_trees_) + 1
            /\ free_snode_tree_ids_' = <<>>]_vars

\* C3 witness: the free-id stack went empty again after a destroy and a reuse,
\* and the next tree took the id equal to the number of live trees.
C3_Witness ==
    /\ free_snode_tree_ids_ = <<>>
    /\ tree_serial >= 3
    /\ \E t \in live_trees :
          /\ t.serial = tree_serial
          /\ t.id = Len(snode_trees_) - 1
          /\ t.id = Cardinality(live_trees) - 1
          /\ t.id < t.serial - 1

\* C4: no two live SNode trees have the same id, and every live tree's id is a
\* non-negative integer smaller than the size of the tree list.
C4_LiveTreeIdsUnique ==
    /\ \A t1, t2 \in live_trees : t1 # t2 => t1.id # t2.id
    /\ \A t \in live_trees : t.id >= 0 /\ t.id < Len(snode_trees_)

\* C4 witness: two live trees, one of them on a reused id, one id still free.
C4_Witness ==
    /\ Cardinality(live_trees) >= 2
    /\ \E t \in live_trees : t.id < t.serial - 1
    /\ free_snode_tree_ids_ # <<>>

\* C5: get_snode_root(id) succeeds exactly when id names a live tree, and then
\* gives that tree's root; so from destroy_snode_tree of the tree with id k
\* until an add_snode_tree reallocates k, get_snode_root(k) fails.
C5_GetSnodeRootLiveOnly ==
    /\ \A k \in -1..MaxTrees :
          (get_snode_root(k) # 0) <=> (\E t \in live_trees : t.id = k)
    /\ \A t \in live_trees : get_snode_root(t.id) = t.serial
    /\ \A i \in 1..Len(destroyed_ids) : get_snode_root(destroyed_ids[i]) = 0

\* C5 witness: a destroyed id inside the tree list fails while a tree on a
\* reallocated id is found again.
C5_Witness ==
    /\ \E k \in 0..(Len(snode_trees_) - 1) : get_snode_root(k) = 0
    /\ \E t \in live_trees : t.id < t.serial - 1 /\ get_snode_root(t.id) = t.serial

\* -------------------------------------------------- claims: function registry
\* The keys requested so far.
RequestedKeys == {r.key : r \in fn_returned}

\* C8: function deduplication.  Two create_function calls with equal keys
\* return the same Function instance, two calls with different keys return
\* different instances, and functions_ and function_map_ hold exactly one
\* entry per distinct key requested so far.
C8_FunctionDedup ==
    /\ \A r1, r2 \in fn_returned : (r1.key = r2.key) <=> (r1.fn = r2.fn)
    /\ DOMAIN function_map_ = RequestedKeys
    /\ Len(functions_) = Cardinality(RequestedKeys)
    /\ \A k \in RequestedKeys :
          /\ Cardinality({i \in 1..Len(functions_) : functions_[i].key = k}) = 1
          /\ functions_[function_map_[k]].key = k
          /\ functions_[function_map_[k]].serial = function_map_[k]

\* C8 witness: one key was requested twice (created, then found again) and a
\* different key was requested after it.
C8_Witness ==
    \E r1, r2, r3 \in fn_returned :
       /\ r1.key = r2.key /\ r1.fresh /\ ~r2.fresh
       /\ r3.key # r1.key /\ r3.fn > r1.fn

\* ---------------------------------------- claims: ndarray table and lifecycle
\* C9: ndarray lifecycle.  delete_ndarray(a) on an ndarray in the table
\* removes a's entry and leaves every other entry as it was; delete_ndarray on
\* an ndarray that was deleted before or was never created by this Program
\* ends in a failure and leaves the table unchanged.
C9_NdarrayLifecycle ==
    [][\A h \in NdHandles :
          DeleteNdarray(h) =>
             IF h \in DOMAIN ndarrays_
             THEN /\ DOMAIN ndarrays_' = DOMAIN ndarrays_ \ {h}
                  /\ \A g \in DOMAIN ndarrays_' : ndarrays_'[g] = ndarrays_[g]
                  /\ res_call'.outcome = "ok"
             ELSE /\ ndarrays_' = ndarrays_
                  /\ res_call'.outcome = "fail"]_vars

\* C9 witness: an ndarray that was created and deleted is deleted again, with
\* another ndarray still in the table; the call failed.
C9_Witness ==
    /\ res_call.op = "delete_ndarray"
    /\ res_call.outcome = "fail"
    /\ res_call.arg <= nd_serial
    /\ res_call.arg \notin DOMAIN ndarrays_
    /\ DOMAIN ndarrays_ # {}

\* C10: backend resources are released exactly once over the lifetime of a
\* Program on which finalize() is called at most once: never twice, and once
\* the Program is destroyed not zero times; the destructor runs finalize if
\* and only if finalize() has not run before.
C10_ReleasedExactlyOnce ==
    finalize_calls <= 1 =>
       /\ release_count <= 1
       /\ release_count = 1 <=> finalized_
       /\ ~alive => release_count = 1
       /\ ~alive => (dtor_finalized = "yes" <=> finalize_calls = 0)
       /\ alive => dtor_finalized = "none"

\* C10 witness: a Program that was finalized explicitly and then destroyed;
\* the destructor did not finalize again.
C10_Witness ==
    /\ ~alive
    /\ finalize_calls = 1
    /\ release_count = 1
    /\ dtor_finalized = "no"

\* ------------------------------------------------- claims: kernel registry
\* A step that is a call of kernel().
IsKernelStep == \E name \in KernelNames : Kernel(name)

\* C14: kernels are append-only.  Each kernel() call makes the owned kernel
\* list longer by exactly one and returns the newly appended last element;
\* no operation other than the teardown of the Program removes, reorders or
\* replaces a kernel, so every kernel stays at its position in all later
\* states.
C14_KernelsAppendOnly ==
    [][/\ IsKernelStep =>
             /\ Len(kernels') = Len(kernels) + 1
             /\ kernel_ret'.kernel = kernels'[Len(kernels')]
             /\ \A i \in 1..Len(kernels) : kernels[i] # kernel_ret'.kernel
       /\ alive' =>
             /\ Len(kernels') >= Len(kernels)
             /\ \A i \in 1..Len(kernels) : kernels'[i] = kernels[i]
       /\ Len(kernels') < Len(kernels) => (alive /\ ~alive')]_vars

\* C14 witness: the latest call was kernel(), the list also holds kernels
\* built by other calls before it, and the call returned the last element.
C14_Witness ==
    /\ alive
    /\ kernel_ret.op = "kernel"
    /\ Len(kernels) >= 3
    /\ kernel_ret.kernel = kernels[Len(kernels)]
    /\ \E i \in 1..Len(kernels) : kernels[i].snode # 0

\* The (SNode, kind) pairs an accessor was returned for.
AccessorKeys == {<<r.snode, r.kind>> : r \in acc_returned}

\* The kernels of the list that were built as accessors.
AccessorKernels == {i \in 1..Len(kernels) : kernels[i].snode # 0}

\* C15: SNode accessor caching.  All get_snode_reader(s) calls for one SNode
\* return the same kernel, and so do all get_snode_writer(s) calls; only
\* the first of them builds a kernel (as many accessor kernels are built as
\* there are (SNode, kind) pairs requested); the reader and the writer of
\* one SNode are distinct kernels, and kernels of different SNodes are
\* distinct.
C15_AccessorCaching ==
    alive =>
      /\ \A r1, r2 \in acc_returned :
            (r1.snode = r2.snode /\ r1.kind = r2.kind) <=>
                r1.kernel = r2.kernel
      /\ Cardinality(AccessorKernels) = Cardinality(AccessorKeys)
      /\ kernel_ret.op \in {"snode_reader", "snode_writer"} =>
            /\ kernel_ret.kernel.snode = kernel_ret.snode
            /\ kernel_ret.kernel.name = kernel_ret.op
            /\ \E i \in 1..Len(kernels) : kernels[i] = kernel_ret.kernel

\* C15 witness: a reader and a writer of one SNode and a reader of another
\* SNode were returned, and the latest call returned an accessor that had
\* been built by an earlier call.
C15_Witness ==
    /\ alive
    /\ \E s1, s2 \in SNodes :
          /\ s1 # s2
          /\ {<<s1, "snode_reader">>, <<s1, "snode_writer">>,
              <<s2, "snode_reader">>} \subseteq AccessorKeys
    /\ kernel_ret.op = "snode_reader"
    /\ ~kernel_ret.built

\* ------------------------------------------- claims: free-id stack of trees
\* The ids on the free-id stack, and the slots that hold a live tree.
FreeIds == {free_snode_tree_ids_[i] : i \in 1..Len(free_snode_tree_ids_)}

LiveSlots == {i \in 1..Len(snode_trees_) : snode_trees_[i] # NullTree}

\* C18: in every state reached by add_snode_tree / destroy_snode_tree the
\* free-id stack holds no id twice, every id on it is smaller than the size
\* of the tree list and names an invalidated slot, and the number of live
\* trees is the size of the tree list minus the depth of the stack; the size
\* of the tree list never decreases.
C18_FreeIdStackConsistent ==
    /\ [](/\ Cardinality(FreeIds) = Len(free_snode_tree_ids_)
          /\ \A id \in FreeIds :
                /\ id >= 0 /\ id < Len(snode_trees_)
                /\ snode_trees_[id + 1] = NullTree
          /\ Cardinality(live_trees) =
                Len(snode_trees_) - Len(free_snode_tree_ids_)
          /\ Cardinality(LiveSlots) = Cardinality(live_trees))
    /\ [][Len(snode_trees_') >= Len(snode_trees_)]_vars

\* C18 witness: two ids are on the free stack after a freed id was reused:
\* the list has three slots, one of them live, and more trees were
\* constructed than the list has slots.
C18_Witness ==
    /\ Len(free_snode_tree_ids_) = 2
    /\ Len(snode_trees_) = 3
    /\ Cardinality(live_trees) = 1
    /\ tree_serial > Len(snode_trees_)

\* ------------------------------------------- claims: JITEvaluatorId hashing
\* C19: the hash of JITEvaluatorId is consistent with its equality.  For all
\* pairs of ids, two ids that compare equal under operator== have equal hash
\* values.
C19_HashConsistentWithEq ==
    (hash_out # <<>> /\ IdEq(hash_a, hash_b)) => hash_out[1] = hash_out[2]

\* C19 witness: the hashes of two ids that compare equal were computed; the
\* ids are binary operations of a thread, so the hash has bit 31 and a bit
\* of the thread's hash set.
C19_Witness ==
    /\ hash_out # <<>>
    /\ IdEq(hash_a, hash_b)
    /\ hash_a.is_binary /\ hash_a.tb = "tb" /\ hash_a.op = 1
    /\ 31 \in hash_out[1]
    /\ \E i \in hash_out[2] : i >= 32

\* ---------------------------------------------------- claims: get_kernel_id
\* The ids get_kernel_id() returned.
KidReturnedSet == {kid_returned[i] : i \in 1..Len(kid_returned)}

\* C20: get_kernel_id() never returns the same id twice.  Over any calls,
\* calls interleaved from concurrent threads included, the returned ids are
\* pairwise distinct, they start where the counter started (at 0 in a new
\* process) and go up by one per call (with no call in progress, n calls
\* returned the n ids from the start on), every returned id is below 100000,
\* and a call fails the assertion only when the counter has reached 100000.
C20_KernelIdsUnique ==
    /\ Cardinality(KidReturnedSet) = Len(kid_returned)
    /\ \A id \in KidReturnedSet : id >= kid_base /\ id < KernelIdLimit
    /\ (\A t \in Threads : kid_pc[t] = "idle") =>
          KidReturnedSet = kid_base..(kid_base + Len(kid_returned) - 1)
    /\ kid_failed > 0 => kernel_id >= KernelIdLimit

\* C20, the failing case: two calls that started in a new process have
\* returned, both with the id 0.
C20_DuplicateReturned ==
    /\ kid_base = 0
    /\ Len(kid_returned) = 2
    /\ kid_returned[1] = 0 /\ kid_returned[2] = 0

\* --------------------------------------- claims: evaluator cache liveness
\* The threads inside a call that hold / wait for jit_evaluator_cache_mut.
EvalHolders == {t \in EvalThreads : ev_pc[t] \in {"probe", "insert"}}

EvalWaiters == {t \in EvalThreads : ev_pc[t] = "wait"}

====
